---------------------------- MODULE Spec2Model ----------------------------
(***************************************************************************)
(* Model of the matchup service of main.py: the two game endpoints, the    *)
(* game analysis coroutine and the two Baseball Savant fetchers.           *)
(*                                                                         *)
(* Text is modelled as a sequence of one-character strings, so that split, *)
(* strip, replace, upper, isdigit and trim are computed character by       *)
(* character as Python and JavaScript compute them.  A request advances    *)
(* from one await to the next in one step, which is the grain at which the *)
(* asyncio event loop interleaves the handlers of concurrent requests.     *)
(***************************************************************************)
EXTENDS Integers, Sequences, FiniteSets, TLC

(************************* text primitives *********************************)

Whitespace == {" ", "\t"}

Digits == {"0", "1", "2", "3", "4", "5", "6", "7", "8", "9"}

LowerAlpha == <<"a","b","c","d","e","f","g","h","i","j","k","l","m","n","o","p","q","r","s","t","u","v","w","x","y","z">>

UpperAlpha == <<"A","B","C","D","E","F","G","H","I","J","K","L","M","N","O","P","Q","R","S","T","U","V","W","X","Y","Z">>

\* one character of str.upper()
UpperChar(c) ==
    IF \E k \in 1..Len(LowerAlpha) : LowerAlpha[k] = c
    THEN UpperAlpha[CHOOSE k \in 1..Len(LowerAlpha) : LowerAlpha[k] = c]
    ELSE c

\* str.upper()
Upper(s) == [k \in 1..Len(s) |-> UpperChar(s[k])]

\* str.isdigit(): non-empty and every character a digit
IsDigit(s) == Len(s) > 0 /\ \A k \in 1..Len(s) : s[k] \in Digits

\* c in s, for a single character c
HasChar(s, c) == \E k \in 1..Len(s) : s[k] = c

\* s[from:] begins with pat
StartsAt(s, pat, from) ==
    /\ from + Len(pat) - 1 <= Len(s)
    /\ \A k \in 1..Len(pat) : s[from + k - 1] = pat[k]

\* str.strip() and String.prototype.trim(): drop leading and trailing whitespace
Strip(s) ==
    LET keep == {k \in 1..Len(s) : s[k] \notin Whitespace}
    IN  IF keep = {} THEN <<>>
        ELSE LET lo == CHOOSE k \in keep : \A m \in keep : k <= m
                 hi == CHOOSE k \in keep : \A m \in keep : k >= m
             IN  SubSeq(s, lo, hi)

\* str.replace(pat, ''): delete the occurrences of pat, left to right
RECURSIVE RemoveAll(_, _)
RemoveAll(s, pat) ==
    IF s = <<>> THEN <<>>
    ELSE IF StartsAt(s, pat, 1)
         THEN RemoveAll(SubSeq(s, Len(pat) + 1, Len(s)), pat)
         ELSE <<Head(s)>> \o RemoveAll(Tail(s), pat)

\* str.split(): the maximal runs of non-whitespace characters, in order
RECURSIVE SplitFrom(_, _)
SplitFrom(s, word) ==
    IF s = <<>> THEN (IF word = <<>> THEN <<>> ELSE <<word>>)
    ELSE IF Head(s) \in Whitespace
         THEN (IF word = <<>> THEN <<>> ELSE <<word>>) \o SplitFrom(Tail(s), <<>>)
         ELSE SplitFrom(Tail(s), Append(word, Head(s)))

Split(s) == SplitFrom(s, <<>>)

\* ' '.join(parts)
RECURSIVE Join(_)
Join(parts) ==
    IF parts = <<>> THEN <<>>
    ELSE IF Len(parts) = 1 THEN parts[1]
         ELSE parts[1] \o <<" ">> \o Join(Tail(parts))


\* one character of str.lower()
LowerChar(c) ==
    IF \E k \in 1..Len(UpperAlpha) : UpperAlpha[k] = c
    THEN LowerAlpha[CHOOSE k \in 1..Len(UpperAlpha) : UpperAlpha[k] = c]
    ELSE c

\* str.lower()
Lower(s) == [k \in 1..Len(s) |-> LowerChar(s[k])]

\* pat in s, for strings
Contains(s, pat) == \E k \in 1..(Len(s) + 1) : StartsAt(s, pat, k)

\* the sequences over S of length at most n
SeqsUpTo(S, n) == UNION {[1..k -> S] : k \in 0..n}

(************************* name extraction *********************************)

\* main.py 234-235: drop the handedness markers of a pitcher string
PitcherName(raw) == Strip(RemoveAll(RemoveAll(raw, <<"(","R",")">>), <<"(","L",")">>))

\* main.py 245-248: the parts up to the first one holding "("
RECURSIVE TakeUntilParen(_)
TakeUntilParen(parts) ==
    IF parts = <<>> THEN <<>>
    ELSE IF HasChar(Head(parts), "(") THEN <<>>
         ELSE <<Head(parts)>> \o TakeUntilParen(Tail(parts))

\* main.py 243-249: away lineup line, "1   J.P. Crawford (L) SS"
AwayBatterName(line) ==
    LET parts == Split(line)
    IN  Join(TakeUntilParen(IF parts = <<>> THEN <<>> ELSE Tail(parts)))

\* main.py 281-287: the non-digit parts after the part holding ")"
RECURSIVE AfterHandedness(_, _)
AfterHandedness(parts, found_handedness) ==
    IF parts = <<>> THEN <<>>
    ELSE IF HasChar(Head(parts), ")") THEN AfterHandedness(Tail(parts), TRUE)
         ELSE IF found_handedness /\ ~IsDigit(Head(parts))
              THEN <<Head(parts)>> \o AfterHandedness(Tail(parts), found_handedness)
              ELSE AfterHandedness(Tail(parts), found_handedness)

\* main.py 279-288: home lineup line, "LF (S) Ian Happ   1"
HomeBatterName(line) == Join(AfterHandedness(Split(line), FALSE))

BatterName(side, line) ==
    IF side = "away" THEN AwayBatterName(line) ELSE HomeBatterName(line)

(************************* extraction **************************************)

\* main.py 101-106: one regular-expression match becomes one arsenal entry
ArsenalEntry(match) ==
    [pitch_type |-> Strip(match.label), usage |-> match.pct \o <<"%">>]

\* main.py 99-107: the arsenal, in the order of the matches
ArsenalFromMatches(matches) ==
    [k \in 1..Len(matches) |-> ArsenalEntry(matches[k])]

\* main.py 186: a row needs more than this many cells
MinCells == 10

\* main.py 189: the season kept
Season == <<"2","0","2","5">>

\* main.py 186-189: the rows of the table that are kept
RowKept(cells) == Len(cells) > MinCells /\ Strip(cells[1]) = Season

\* main.py 191-196: data[pitchType] = {pa, ba, slg, woba}
PutRow(data, cells) ==
    LET pitchType == Strip(cells[2])
        stats == [pa |-> Strip(cells[8]), ba |-> Strip(cells[9]),
                  slg |-> Strip(cells[10]), woba |-> Strip(cells[11])]
    IN  [k \in (DOMAIN data) \cup {pitchType} |->
            IF k = pitchType THEN stats ELSE data[k]]

EmptyDict == [k \in {} |-> {}]

\* main.py 184-199: rows.forEach over the table's rows
RECURSIVE PitchDataFromRows(_, _)
PitchDataFromRows(rows, data) ==
    IF rows = <<>> THEN data
    ELSE PitchDataFromRows(Tail(rows),
            IF RowKept(Head(rows)) THEN PutRow(data, Head(rows)) ELSE data)

(************************* correlation *************************************)

\* main.py 264 / 303: pitch_type in batter_stats
InStats(pitch_type, batter_stats) == pitch_type \in DOMAIN batter_stats

\* main.py 265-269 / 304-308
PerformanceEntry(pitch, batter_stats) ==
    [pitch_type |-> pitch.pitch_type,
     pitcher_usage |-> pitch.usage,
     batter_stats |-> batter_stats[pitch.pitch_type]]

\* the loop with insert(0, ...) in place of append: the entries come out reversed
RECURSIVE PerformanceLoopReversed(_, _, _)
PerformanceLoopReversed(arsenal, batter_stats, performance) ==
    IF arsenal = <<>> THEN performance
    ELSE PerformanceLoopReversed(Tail(arsenal), batter_stats,
            IF InStats(Head(arsenal).pitch_type, batter_stats)
            THEN << PerformanceEntry(Head(arsenal), batter_stats) >> \o performance
            ELSE performance)

\* main.py 262-269 / 301-308: for pitch in arsenal: ... performance.append(...)
RECURSIVE PerformanceLoop(_, _, _)
PerformanceLoop(arsenal, batter_stats, performance) ==
    IF arsenal = <<>> THEN performance
    ELSE PerformanceLoop(Tail(arsenal), batter_stats,
            IF InStats(Head(arsenal).pitch_type, batter_stats)
            THEN Append(performance, PerformanceEntry(Head(arsenal), batter_stats))
            ELSE performance)

Performance(arsenal, batter_stats) == PerformanceLoop(arsenal, batter_stats, <<>>)

(************************* the lineup feed *********************************)

\* the game of a doubleheader's second leg: one away line, home lineup not posted
GameDetTb2 ==
    [away_team |-> <<"D","E","T">>, home_team |-> <<"T","B">>,
     away_pitcher |-> <<"M","i","z","e"," ","(","R",")">>, home_pitcher |-> <<"P","e","p","i","o","t"," ","(","R",")">>,
     away_lineup |-> << <<"1"," ","G","r","e","e","n","e"," ","(","L",")"," ","L","F">> >>,
     home_lineup |-> << >>]

\* four away lines, so that the top-3 limit cuts; each lineup holds both layouts
GameDetTb ==
    [away_team |-> <<"D","E","T">>, home_team |-> <<"T","B">>,
     away_pitcher |-> <<"S","k","u","b","a","l"," ","(","L",")">>, home_pitcher |-> <<"B","a","z"," ","(","R",")">>,
     away_lineup |-> << <<"1"," ","G","r","e","e","n","e"," ","(","L",")"," ","L","F">>, <<"2","B"," ","(","R",")"," ","T","o","r","r","e","s"," ","2">>,
                        <<"3"," ","B","a","e","z"," ","(","R",")"," ","C","F">>, <<"4"," ","D","i","n","g","l","e","r"," ","(","R",")"," ","C">> >>,
     home_lineup |-> << <<"3","B"," ","(","R",")"," ","C","a","m","i","n","e","r","o"," ","1">>, <<"2"," ","A","r","a","n","d","a"," ","(","L",")"," ","1","B">> >>]

\* the two lineup lines of the observed layouts
GameSeaChc ==
    [away_team |-> <<"S","E","A">>, home_team |-> <<"C","H","C">>,
     away_pitcher |-> <<"K","i","r","b","y"," ","(","R",")">>, home_pitcher |-> <<"I","m","a","n","a","g","a"," ","(","L",")">>,
     away_lineup |-> << <<"1"," "," "," ","J",".","P","."," ","C","r","a","w","f","o","r","d"," ","(","L",")"," ","S","S">> >>,
     home_lineup |-> << <<"L","F"," ","(","S",")"," ","I","a","n"," ","H","a","p","p"," "," "," ","1">> >>]

FeedFull == << GameDetTb, GameSeaChc, GameDetTb2 >>

FeedLate == << GameDetTb2, GameDetTb >>

\* what GET LINEUP_API_URL may answer
Feeds == { << >>, FeedFull, FeedLate }

\* the endpoint and path parameters of a request
Root == [route |-> "root", away_team |-> << >>, home_team |-> << >>]

GamePath(away, home) == [route |-> "game", away_team |-> away, home_team |-> home]

Endpoints ==
    { Root, GamePath(<<"D","E","T">>, <<"T","B">>), GamePath(<<"D","e","t">>, <<"t","b">>), GamePath(<<"s","e","a">>, <<"c","h","c">>),
      GamePath(<<"T","B">>, <<"D","E","T">>), GamePath(<<"N","Y","Y">>, <<"B","O","S">>) }

(************************* the statistics site *****************************)

\* longest arsenal text and longest table the site serves
MaxPitches == 3

MaxRows == 2

\* the matches of /([A-Za-z\s]+)\s*\(([\d.]+)%\)/g in the arsenal text
PitchMatches ==
    { [label |-> <<" ","S","l","i","d","e","r"," ">>, pct |-> <<"3","0",".","1">>],
      [label |-> <<"s","l","i","d","e","r">>, pct |-> <<"3","0",".","1">>],
      [label |-> <<"S","i","n","k","e","r"," ">>, pct |-> <<"4","8">>] }

Filler == <<"-">>

TableRow(year, pitchType, pa, ba, slg, woba) ==
    << year, pitchType, Filler, Filler, Filler, Filler, Filler, pa, ba, slg, woba >>

\* rows of the run-values table: td texts, cells[0] the year, cells[1] the pitch type
TableRows ==
    { TableRow(<<" ","2","0","2","5"," ">>, <<"S","l","i","d","e","r">>, <<"1","2">>, <<".","2","5","0">>, <<".","4","0","0">>, <<" ",".","3","1","0">>),
      TableRow(<<"2","0","2","5">>, <<"S","l","i","d","e","r">>, <<"5">>, <<".","3","3","3">>, <<".","6","6","7">>, <<".","4","2","0">>),
      TableRow(<<"2","0","2","5">>, <<" ","s","l","i","d","e","r">>, <<"5">>, <<".","3","3","3">>, <<".","6","6","7">>, <<".","4","2","0">>),
      TableRow(<<"2","0","2","5">>, <<"S","i","n","k","e","r"," ">>, <<"1","2">>, <<".","2","5","0">>, <<".","4","0","0">>, <<".","3","1","0">>),
      TableRow(<<"2","0","2","4">>, <<"S","i","n","k","e","r">>, <<"5">>, <<".","3","3","3">>, <<".","6","6","7">>, <<".","4","2","0">>),
      SubSeq(TableRow(<<"2","0","2","5">>, <<"S","i","n","k","e","r">>, <<"5">>, <<".","3","3","3">>, <<".","6","6","7">>, <<".","4","2","0">>), 1, 10) }

OneMatch == [label |-> <<"S","i","n","k","e","r"," ">>, pct |-> <<"4","8">>]

OneRow == TableRow(<<"2","0","2","5">>, <<"S","i","n","k","e","r"," ">>, <<"1","2">>, <<".","2","5","0">>, <<".","4","0","0">>, <<".","3","1","0">>)

\* the arsenal texts the site may hold for a pitcher: every text up to the bound
\* for Imanaga, a few for Kirby, one for the others
ArsenalTexts(name) ==
    IF name = <<"I","m","a","n","a","g","a">> THEN SeqsUpTo(PitchMatches, MaxPitches)
    ELSE IF name = <<"K","i","r","b","y">>
         THEN { << OneMatch >>,
                << [label |-> <<"s","l","i","d","e","r">>, pct |-> <<"3","0",".","1">>] >>,
                << [label |-> <<" ","S","l","i","d","e","r"," ">>, pct |-> <<"3","0",".","1">>], OneMatch >> }
         ELSE { << OneMatch >> }

\* the run-values tables the site may hold for a batter: every table up to the
\* bound for J.P. Crawford, the one-row tables for Ian Happ, one for the others
RunValueTables(name) ==
    IF name = <<"J",".","P","."," ","C","r","a","w","f","o","r","d">> THEN SeqsUpTo(TableRows, MaxRows)
    ELSE IF name = <<"I","a","n"," ","H","a","p","p">> THEN SeqsUpTo(TableRows, 1)
         ELSE { << OneRow >> }

\* What one browser session meets, step by step: goto_ok, click_ok and
\* evaluate_ok say that page.goto, first_result.click and page.evaluate do not
\* raise; search_box, menu_item, savant_link, search_results and links are what
\* the selectors of the search find; found says that the element holding the
\* arsenal sentence, or the table headed by the run-values title, is on the
\* player's page; data are the matches of the regular expression in that text,
\* or the rows of that table.  PlainPage is a page on which every step succeeds.
PlainPage(data) ==
    [goto_ok |-> TRUE, search_box |-> TRUE, menu_item |-> TRUE, savant_link |-> FALSE,
     search_results |-> FALSE, links |-> << <<"S","t","a","n","d","i","n","g","s">> >>, click_ok |-> TRUE,
     evaluate_ok |-> TRUE, found |-> TRUE, data |-> data]

\* the ways a fetch of `name` goes wrong or finds its result late in the chain
OddPages(name, data) ==
    LET ok == PlainPage(data)
        none == [ok EXCEPT !.menu_item = FALSE]
    IN  { [ok EXCEPT !.goto_ok = FALSE],
          [ok EXCEPT !.search_box = FALSE],
          none,
          [none EXCEPT !.savant_link = TRUE],
          [none EXCEPT !.search_results = TRUE],
          [none EXCEPT !.links = << <<"S","t","a","n","d","i","n","g","s">>, Upper(name) \o <<" ","|"," ","P","l","a","y","e","r">> >>],
          [ok EXCEPT !.click_ok = FALSE],
          [ok EXCEPT !.evaluate_ok = FALSE],
          [ok EXCEPT !.found = FALSE] }

\* the pages the site may show get_pitcher_arsenal for `name`
PitcherPages(name) ==
    OddPages(name, << OneMatch >>) \cup { PlainPage(m) : m \in ArsenalTexts(name) }

\* the pages the site may show get_batter_vs_pitches for `name`
BatterPages(name) ==
    OddPages(name, << OneRow >>) \cup { PlainPage(t) : t \in RunValueTables(name) }

(************************* the fetchers ************************************)

\* main.py 64-68 / 154-158: some link's text holds the name, ignoring case
NameLink(page, name) ==
    \E k \in 1..Len(page.links) : Contains(Lower(page.links[k]), Lower(name))

\* main.py 55-68 / 146-158: the chain of selectors for the first search result
FirstResult(page, name) ==
    IF page.menu_item THEN "ui-menu-item"
    ELSE IF page.savant_link THEN "savant-player"
    ELSE IF page.search_results THEN "search-results"
    ELSE IF NameLink(page, name) THEN "link"
    ELSE "none"

\* main.py 44-47 / 140-142: the name is typed into the search box
Searched(page) == page.goto_ok /\ page.search_box

\* main.py 36-87 / 132-170: the page of the player is reached and read
Reached(page, name) ==
    /\ Searched(page)
    /\ FirstResult(page, name) # "none"
    /\ page.click_ok
    /\ page.evaluate_ok

\* main.py 36-121: what get_pitcher_arsenal returns once the browser is up
PitcherArsenal(name, page) ==
    IF Reached(page, name) /\ page.found
    THEN ArsenalFromMatches(page.data)
    ELSE << >>

\* main.py 132-214: what get_batter_vs_pitches returns once the browser is up
BatterVsPitches(name, page) ==
    IF Reached(page, name) /\ page.found
    THEN PitchDataFromRows(page.data, EmptyDict)
    ELSE EmptyDict

(************************* the service **************************************)

VARIABLES
    pc,            \* per request: the await the handler is suspended at
    endpoint,      \* per request: route and path parameters
    lineup_data,   \* per request: what get_lineups returned
    game,          \* per request: the game found in the feed
    result,        \* per request: analyze_game's result dict
    at,            \* per request: the fetch in progress (kind, side, i, name)
    batter_stats,  \* per request: analyze_game's batter_stats
    matchup,       \* per request: analyze_game's matchup
    response,      \* per request: what the handler returned
    trace          \* per request: the external calls made so far, in order

vars == << pc, endpoint, lineup_data, game, result, at, batter_stats, matchup,
           response, trace >>

\* number of requests the process serves at once
MaxRequests == 4

None == [none |-> TRUE]

Pending == [status |-> "pending"]

ErrorResponse(message) == [status |-> "error", error |-> message]

OkResponse(body) == [status |-> "ok", body |-> body]

Event(e, kind, side, name) == [e |-> e, kind |-> kind, side |-> side, name |-> name]

\* main.py 241 / 277: the batters taken from each lineup
TopN == 3

Min(a, b) == IF a <= b THEN a ELSE b

Opposing(side) == IF side = "away" THEN "home" ELSE "away"

Lineup(g, side) == IF side = "away" THEN g.away_lineup ELSE g.home_lineup

Team(g, side) == IF side = "away" THEN g.away_team ELSE g.home_team

RawPitcher(g, side) == IF side = "away" THEN g.away_pitcher ELSE g.home_pitcher

\* main.py 330: the game GET / looks for
MatchesRoot(g) == g.away_team = <<"D","E","T">> /\ g.home_team = <<"T","B">>

\* main.py 355: team codes compared after upper()
MatchesPath(g, away_team, home_team) ==
    /\ Upper(g.away_team) = Upper(away_team)
    /\ Upper(g.home_team) = Upper(home_team)

GameMatches(g, ep) ==
    IF ep.route = "root" THEN MatchesRoot(g)
    ELSE MatchesPath(g, ep.away_team, ep.home_team)

\* the loop without its break: the last matching game wins
RECURSIVE FindLastGame(_, _)
FindLastGame(games, ep) ==
    IF games = << >> THEN None
    ELSE IF FindLastGame(Tail(games), ep) # None
         THEN FindLastGame(Tail(games), ep)
         ELSE IF GameMatches(Head(games), ep) THEN Head(games) ELSE None

\* main.py 328-332 / 353-357: for g in lineup_data: if ...: game = g; break
RECURSIVE FindGame(_, _)
FindGame(games, ep) ==
    IF games = << >> THEN None
    ELSE IF GameMatches(Head(games), ep) THEN Head(games)
         ELSE FindGame(Tail(games), ep)

\* main.py 324-325, 334-335, 359-360: the error of a request that finds no game
NotFoundMessage(games, ep) ==
    IF ep.route = "game" THEN "Game not found"
    ELSE IF games = << >> THEN "No games found"
         ELSE "DET @ TB game not found"

\* main.py 218-231
NewResult(g) ==
    [game |-> g.away_team \o <<" ","@"," ">> \o g.home_team,
     pitchers |-> [away |-> [name |-> g.away_pitcher, arsenal |-> << >>],
                   home |-> [name |-> g.home_pitcher, arsenal |-> << >>]],
     key_matchups |-> << >>]

\* main.py 237-238: result['pitchers'][side]['arsenal'] = ...
WithArsenal(res, side, arsenal) ==
    [res EXCEPT !.pitchers[side].arsenal = arsenal]

\* main.py 255-269 / 294-308
NewMatchup(g, side, batter_name, stats, res) ==
    [batter |-> batter_name,
     team |-> Team(g, side),
     vs_pitcher |-> PitcherName(RawPitcher(g, Opposing(side))),
     performance |-> Performance(res.pitchers[Opposing(side)].arsenal, stats)]

\* the test dropped: every matchup is kept
KeepMatchupAlways(m) == TRUE

\* main.py 271 / 310: if matchup['performance']
KeepMatchup(m) == m.performance # << >>

\* main.py 271-272 / 310-311
WithMatchup(res, m) ==
    IF KeepMatchup(m)
    THEN [res EXCEPT !.key_matchups = Append(@, m)]
    ELSE res

\* main.py 241 / 277: range(min(3, len(lineup)))
InRange(g, side, i) == i < Min(TopN, Len(Lineup(g, side)))

\* main.py 241-313: the batter the loops reach from position i of side's loop
NextBatter(g, side, i) ==
    IF InRange(g, side, i) THEN [more |-> TRUE, side |-> side, i |-> i]
    ELSE IF side = "away" /\ InRange(g, "home", 0)
         THEN [more |-> TRUE, side |-> "home", i |-> 0]
         ELSE [more |-> FALSE, side |-> "home", i |-> 0]

\* the home pitcher's fetch left out: the batters follow the away pitcher
AfterPitcherSkipsHome(g, side) == [kind |-> "batter"] @@ NextBatter(g, "away", 0)

\* main.py 237-241: what analyze_game does after a pitcher's arsenal is stored
AfterPitcher(g, side) ==
    IF side = "away"
    THEN [kind |-> "pitcher", more |-> TRUE, side |-> "home", i |-> 0]
    ELSE [kind |-> "batter"] @@ NextBatter(g, "away", 0)

\* the argument of the fetch that `step` starts
FetchName(g, step) ==
    IF step.kind = "pitcher" THEN PitcherName(RawPitcher(g, step.side))
    ELSE BatterName(step.side, Lineup(g, step.side)[step.i + 1])

\* analyze_game runs on to its next await: the next fetch is called, or it returns
Advance(r, g, step, tr) ==
    IF step.more
    THEN /\ at' = [at EXCEPT ![r] = [kind |-> step.kind, side |-> step.side,
                                     i |-> step.i, name |-> FetchName(g, step)]]
         /\ trace' = [trace EXCEPT ![r] =
                Append(tr, Event("call", step.kind, step.side, FetchName(g, step)))]
         /\ pc' = [pc EXCEPT ![r] = "launch"]
         /\ UNCHANGED response
    ELSE /\ pc' = [pc EXCEPT ![r] = "done"]
         /\ response' = [response EXCEPT ![r] = OkResponse(result'[r])]
         /\ trace' = [trace EXCEPT ![r] = tr]
         /\ UNCHANGED at

NoFetch == [kind |-> "none", side |-> "away", i |-> 0, name |-> << >>]

InitFor(requests) ==
    /\ pc = [r \in requests |-> "idle"]
    /\ endpoint = [r \in requests |-> None]
    /\ lineup_data = [r \in requests |-> None]
    /\ game = [r \in requests |-> None]
    /\ result = [r \in requests |-> None]
    /\ at = [r \in requests |-> NoFetch]
    /\ batter_stats = [r \in requests |-> None]
    /\ matchup = [r \in requests |-> None]
    /\ response = [r \in requests |-> Pending]
    /\ trace = [r \in requests |-> << >>]

\* a request arrives; its handler awaits get_lineups (main.py 322 / 350)
Request(r, endpoints) ==
    /\ pc[r] = "idle"
    /\ \E ep \in endpoints : endpoint' = [endpoint EXCEPT ![r] = ep]
    /\ pc' = [pc EXCEPT ![r] = "get_lineups"]
    /\ UNCHANGED << lineup_data, game, result, at, batter_stats, matchup,
                    response, trace >>

\* main.py 342-343 / 367-368: get_lineups raises
LineupsRaise(r) ==
    /\ pc[r] = "get_lineups"
    /\ pc' = [pc EXCEPT ![r] = "done"]
    /\ response' = [response EXCEPT ![r] = ErrorResponse("exception")]
    /\ UNCHANGED << endpoint, lineup_data, game, result, at, batter_stats,
                    matchup, trace >>

\* main.py 322-335 / 350-360: the feed arrives and holds no game for the request
GameNotFound(r, feeds) ==
    /\ pc[r] = "get_lineups"
    /\ \E feed \in feeds :
        /\ FindGame(feed, endpoint[r]) = None
        /\ lineup_data' = [lineup_data EXCEPT ![r] = feed]
        /\ response' = [response EXCEPT ![r] =
                ErrorResponse(NotFoundMessage(feed, endpoint[r]))]
    /\ pc' = [pc EXCEPT ![r] = "done"]
    /\ UNCHANGED << endpoint, game, result, at, batter_stats, matchup, trace >>

\* main.py 322-338 / 350-363, 218-237: the game is found and analyze_game starts
GameFound(r, feeds) ==
    /\ pc[r] = "get_lineups"
    /\ \E feed \in feeds :
        LET g == FindGame(feed, endpoint[r])
        IN  /\ g # None
            /\ lineup_data' = [lineup_data EXCEPT ![r] = feed]
            /\ game' = [game EXCEPT ![r] = g]
            /\ result' = [result EXCEPT ![r] = NewResult(g)]
            /\ Advance(r, g, [kind |-> "pitcher", more |-> TRUE,
                              side |-> "away", i |-> 0], trace[r])
    /\ UNCHANGED << endpoint, batter_stats, matchup >>

\* main.py 29-34 / 125-130: the browser is launched and its page opened
Launched(r) ==
    /\ pc[r] = "launch"
    /\ pc' = [pc EXCEPT ![r] = "session"]
    /\ UNCHANGED << endpoint, lineup_data, game, result, at, batter_stats,
                    matchup, response, trace >>

\* main.py 29-34 / 125-130 lie outside the try: a failed launch reaches
\* the handler's except (main.py 342-343 / 367-368)
LaunchRaises(r) ==
    /\ pc[r] = "launch"
    /\ pc' = [pc EXCEPT ![r] = "done"]
    /\ response' = [response EXCEPT ![r] = ErrorResponse("exception")]
    /\ UNCHANGED << endpoint, lineup_data, game, result, at, batter_stats,
                    matchup, trace >>

\* the events of one fetch's session: the search, if made, and the return
SessionEvents(tr, fetch, page) ==
    (IF Searched(page)
     THEN Append(tr, Event("search", fetch.kind, fetch.side, fetch.name))
     ELSE tr) \o << Event("return", fetch.kind, fetch.side, fetch.name) >>

\* main.py 36-121, 237-241: get_pitcher_arsenal returns and its arsenal is stored
PitcherReturn(r, pages) ==
    /\ pc[r] = "session"
    /\ at[r].kind = "pitcher"
    /\ \E page \in pages :
        /\ result' = [result EXCEPT ![r] =
                WithArsenal(@, at[r].side, PitcherArsenal(at[r].name, page))]
        /\ Advance(r, game[r], AfterPitcher(game[r], at[r].side),
                   SessionEvents(trace[r], at[r], page))
    /\ UNCHANGED << endpoint, lineup_data, game, batter_stats, matchup >>

\* main.py 132-214, 252-274 / 291-313: get_batter_vs_pitches returns, the matchup
\* is built and kept if it has a performance entry, and the sleep starts
BatterReturn(r, pages) ==
    /\ pc[r] = "session"
    /\ at[r].kind = "batter"
    /\ \E page \in pages :
        LET stats == BatterVsPitches(at[r].name, page)
            m == NewMatchup(game[r], at[r].side, at[r].name, stats, result[r])
        IN  /\ batter_stats' = [batter_stats EXCEPT ![r] = stats]
            /\ matchup' = [matchup EXCEPT ![r] = m]
            /\ result' = [result EXCEPT ![r] = WithMatchup(@, m)]
            /\ trace' = [trace EXCEPT ![r] = SessionEvents(@, at[r], page)]
    /\ pc' = [pc EXCEPT ![r] = "sleep"]
    /\ UNCHANGED << endpoint, lineup_data, game, at, response >>

\* main.py 274 / 313: asyncio.sleep(1) is over and the loop goes on
Slept(r) ==
    /\ pc[r] = "sleep"
    /\ UNCHANGED result
    /\ Advance(r, game[r],
               [kind |-> "batter"] @@ NextBatter(game[r], at[r].side, at[r].i + 1),
               Append(trace[r], Event("sleep", "batter", at[r].side, at[r].name)))
    /\ UNCHANGED << endpoint, lineup_data, game, batter_stats, matchup >>

\* one request at a time, against everything the feed and the site may answer
Init == InitFor({1})

Requests == DOMAIN pc

Next ==
    \/ \E r \in Requests : Request(r, Endpoints)
    \/ \E r \in Requests : LineupsRaise(r)
    \/ \E r \in Requests : GameNotFound(r, Feeds)
    \/ \E r \in Requests : GameFound(r, Feeds)
    \/ \E r \in Requests : Launched(r)
    \/ \E r \in Requests : LaunchRaises(r)
    \/ \E r \in Requests : PitcherReturn(r, PitcherPages(at[r].name))
    \/ \E r \in Requests : BatterReturn(r, BatterPages(at[r].name))
    \/ \E r \in Requests : Slept(r)

Spec == Init /\ [][Next]_vars

\* concurrent requests, each for the first DET @ TB game of a late feed or for a
\* team pair the feed does not hold, against a site that answers every search
ConcurrentEndpoints == { GamePath(<<"d","e","t">>, <<"t","b">>), GamePath(<<"N","Y","Y">>, <<"B","O","S">>) }

InitConcurrent == InitFor(1..MaxRequests)

NextConcurrent ==
    \/ \E r \in Requests : Request(r, ConcurrentEndpoints)
    \/ \E r \in Requests : GameNotFound(r, { FeedLate })
    \/ \E r \in Requests : GameFound(r, { FeedLate })
    \/ \E r \in Requests : Launched(r)
    \/ \E r \in Requests : PitcherReturn(r, { PlainPage(<< OneMatch >>) })
    \/ \E r \in Requests : BatterReturn(r, { PlainPage(<< OneRow >>) })
    \/ \E r \in Requests : Slept(r)

SpecConcurrent == InitConcurrent /\ [][NextConcurrent]_vars

\* number of requests that look a game up at once
MaxClients == 3

\* concurrent GET /game requests against a feed that is empty or late: the team
\* pair is absent, reversed, or present twice (a doubleheader) in another case
LookupEndpoints ==
    { GamePath(<<"D","e","t">>, <<"t","b">>), GamePath(<<"s","e","a">>, <<"c","h","c">>), GamePath(<<"T","B">>, <<"D","E","T">>) }

LookupFeeds == { << >>, FeedLate }

InitLookup == InitFor(1..MaxClients)

NextLookup ==
    \/ \E r \in Requests : Request(r, LookupEndpoints)
    \/ \E r \in Requests : GameNotFound(r, LookupFeeds)
    \/ \E r \in Requests : GameFound(r, LookupFeeds)
    \/ \E r \in Requests : Launched(r)
    \/ \E r \in Requests : PitcherReturn(r, { PlainPage(<< OneMatch >>) })
    \/ \E r \in Requests : BatterReturn(r, { PlainPage(<< OneRow >>) })
    \/ \E r \in Requests : Slept(r)

SpecLookup == InitLookup /\ [][NextLookup]_vars

(************************* properties **************************************)

Range(seq) == { seq[k] : k \in 1..Len(seq) }

\* the arsenal the batter in progress is matched against
OpposingArsenal(r) == result[r].pitchers[Opposing(at[r].side)].arsenal

\* the positions of the arsenal whose pitch type is a key of the stats
KeptPositions(arsenal, stats) ==
    { j \in 1..Len(arsenal) : arsenal[j].pitch_type \in DOMAIN stats }

\* performance is the arsenal restricted to the kept positions, in order
IsOrderedJoin(performance, arsenal, stats) ==
    LET kept == KeptPositions(arsenal, stats)
    IN  /\ Len(performance) = Cardinality(kept)
        /\ \A j \in kept :
             performance[Cardinality({ k \in kept : k <= j })] =
                [pitch_type |-> arsenal[j].pitch_type,
                 pitcher_usage |-> arsenal[j].usage,
                 batter_stats |-> stats[arsenal[j].pitch_type]]

\* C1: once a batter's matchup is built, its performance list is exactly the
\* subsequence of the opposing pitcher's arsenal whose pitch types are keys of the
\* batter's stats: arsenal order, that entry's usage, that batter's stats, and
\* nothing for a pitch type the batter's stats lack
C1_PerformanceIsOrderedJoin ==
    \A r \in Requests :
        pc[r] = "sleep" =>
            IsOrderedJoin(matchup[r].performance, OpposingArsenal(r), batter_stats[r])

\* C1 witness: a three-pitch arsenal whose middle pitch type the batter's stats
\* lack: the first and the third entry are emitted, in that order
C1_Witness ==
    \E r \in Requests :
        /\ pc[r] = "sleep"
        /\ Len(OpposingArsenal(r)) = 3
        /\ OpposingArsenal(r)[2].pitch_type \notin DOMAIN batter_stats[r]
        /\ Len(matchup[r].performance) = 2
        /\ matchup[r].performance[1].pitch_type = OpposingArsenal(r)[1].pitch_type
        /\ matchup[r].performance[2].pitch_type = OpposingArsenal(r)[3].pitch_type
        /\ OpposingArsenal(r)[1].pitch_type # OpposingArsenal(r)[3].pitch_type

\* C2: once a game is found, a failure confined to one player never makes the
\* request answer with an error object
C2_PlayerFailureKeepsGame ==
    \A r \in Requests :
        (pc[r] = "done" /\ game[r] # None) => response[r].status = "ok"

\* the name searches made for `name`, over all requests
Searches(name) ==
    UNION { { << r, k >> : k \in { n \in 1..Len(trace[r]) :
                                    /\ trace[r][n].e = "search"
                                    /\ trace[r][n].name = name } } : r \in Requests }

SearchedNames ==
    UNION { { e.name : e \in { x \in Range(trace[r]) : x.e = "search" } } :
            r \in Requests }

\* C3: each distinct name causes at most one external name search in the process
C3_OneSearchPerName ==
    \A name \in SearchedNames : Cardinality(Searches(name)) <= 1

\* the events of a trace before position k
Before(tr, k, e, kind, side) ==
    \E n \in 1..(k - 1) : tr[n].e = e /\ tr[n].kind = kind /\ tr[n].side = side

\* C4: no batter fetch is called, and so no matchup built, before both pitchers'
\* fetches have returned; and every performance entry of a matchup comes from the
\* arsenal stored in the result for the opposing pitcher
C4_PitchersBeforeBatters ==
    \A r \in Requests :
        /\ \A k \in 1..Len(trace[r]) :
             (trace[r][k].e = "call" /\ trace[r][k].kind = "batter") =>
                /\ Before(trace[r], k, "return", "pitcher", "away")
                /\ Before(trace[r], k, "return", "pitcher", "home")
        /\ pc[r] = "sleep" =>
             /\ \A e \in Range(matchup[r].performance) :
                  \E p \in Range(OpposingArsenal(r)) :
                      p.pitch_type = e.pitch_type /\ p.usage = e.pitcher_usage
             /\ Before(trace[r], Len(trace[r]), "return", "pitcher", "away")
             /\ Before(trace[r], Len(trace[r]), "return", "pitcher", "home")

\* C4 witness: the first away batter has been correlated with a fetched arsenal
C4_Witness ==
    \E r \in Requests :
        /\ pc[r] = "sleep"
        /\ at[r].side = "away" /\ at[r].i = 0
        /\ matchup[r].performance # << >>

\* the requests whose browser is open
InFlight == { r \in Requests : pc[r] = "session" }

\* C5: at most 3 retrieval sessions are in flight at any time
C5_SessionCap == Cardinality(InFlight) <= 3

Positions ==
    { <<"C">>, <<"P">>, <<"1","B">>, <<"2","B">>, <<"3","B">>, <<"S","S">>, <<"L","F">>, <<"C","F">>, <<"R","F">>, <<"D","H">> }

Parenthesized(part) == part # << >> /\ Head(part) = "(" /\ part[Len(part)] = ")"

CleanName(name) ==
    \A part \in Range(Split(name)) :
        ~IsDigit(part) /\ part \notin Positions /\ ~Parenthesized(part)

\* C6: the batter name taken from a lineup line holds no digit-only token, no
\* position abbreviation and no parenthesized handedness marker
C6_BatterNameIsClean ==
    \A r \in Requests : at[r].kind = "batter" => CleanName(at[r].name)

\* the positions of the feed whose teams are the requested ones, ignoring case
Hits(feed, ep) ==
    { k \in 1..Len(feed) :
        /\ Upper(feed[k].away_team) = Upper(ep.away_team)
        /\ Upper(feed[k].home_team) = Upper(ep.home_team) }

FirstHit(feed, ep) == CHOOSE k \in Hits(feed, ep) : \A m \in Hits(feed, ep) : k <= m

OutcomeOf(r) ==
    << pc[r], endpoint[r], lineup_data[r], game[r], result[r], at[r],
       batter_stats[r], matchup[r], response[r], trace[r] >>

\* a GET /game request whose feed has arrived either found no game, answered with
\* the error and made no call, or analyzes the first matching game of the feed
GameLookupInv ==
    \A r \in Requests :
        (endpoint[r] # None /\ endpoint[r].route = "game" /\ lineup_data[r] # None) =>
            IF Hits(lineup_data[r], endpoint[r]) = {}
            THEN /\ pc[r] = "done"
                 /\ response[r] = ErrorResponse("Game not found")
                 /\ trace[r] = << >>
                 /\ game[r] = None /\ result[r] = None
            ELSE game[r] = lineup_data[r][FirstHit(lineup_data[r], endpoint[r])]

\* the step that ends a request for want of a game leaves the other requests alone
NotFoundStep ==
    \A r \in Requests :
        (pc[r] = "get_lineups" /\ pc'[r] = "done") =>
            /\ \A q \in Requests \ {r} : OutcomeOf(q)' = OutcomeOf(q)
            /\ trace'[r] = trace[r] /\ result'[r] = result[r] /\ game'[r] = game[r]

\* C7: a team pair matching no game of the feed, case ignored, ends the request
\* with an error object, makes no fetch and changes nothing of the other
\* requests; a matching pair analyzes the first matching game in feed order
C7_GameLookup == [] GameLookupInv /\ [][NotFoundStep]_vars

\* C7 witness: a request refused against a feed that holds games, while another
\* request has its browser open
C7_Witness ==
    \E r, q \in Requests :
        /\ response[r] = ErrorResponse("Game not found")
        /\ lineup_data[r] # << >>
        /\ pc[q] = "session"

\* C8: between two consecutive fetch calls for different players a sleep elapses
C8_DelayBetweenCalls ==
    \A r \in Requests :
        \A k, l \in 1..Len(trace[r]) :
            ( /\ k < l
              /\ trace[r][k].e = "call" /\ trace[r][l].e = "call"
              /\ trace[r][k].name # trace[r][l].name
              /\ \A n \in (k + 1)..(l - 1) : trace[r][n].e # "call" ) =>
                \E n \in (k + 1)..(l - 1) : trace[r][n].e = "sleep"

\* a pitch-type label with its case folded and its whitespace collapsed
Normalized(label) == Lower(Join(Split(label)))

\* C9: an arsenal entry and a batter key that differ only in case or whitespace
\* yield a performance entry for that pitch type
C9_NormalizedJoin ==
    \A r \in Requests :
        pc[r] = "sleep" =>
            \A p \in Range(OpposingArsenal(r)) :
                (\E key \in DOMAIN batter_stats[r] :
                    Normalized(key) = Normalized(p.pitch_type)) =>
                    \E e \in Range(matchup[r].performance) :
                        e.pitch_type = p.pitch_type

\* C10: every record of key_matchups has a performance entry, and the batter just
\* processed is in key_matchups exactly when a pitch type of the opposing arsenal
\* is a key of the batter's stats
C10_KeyMatchupsNonEmpty ==
    \A r \in Requests :
        result[r] # None =>
            /\ \A m \in Range(result[r].key_matchups) : m.performance # << >>
            /\ pc[r] = "sleep" =>
                 ( matchup[r] \in Range(result[r].key_matchups)
                   <=> KeptPositions(OpposingArsenal(r), batter_stats[r]) # {} )

\* C10 witness: arsenal and stats both non-empty, no pitch type in common, and
\* the batter left out
C10_Witness ==
    \E r \in Requests :
        /\ pc[r] = "sleep"
        /\ OpposingArsenal(r) # << >>
        /\ DOMAIN batter_stats[r] # {}
        /\ KeptPositions(OpposingArsenal(r), batter_stats[r]) = {}
        /\ matchup[r] \notin Range(result[r].key_matchups)

=============================================================================
